---------------------------- MODULE Spec2Model ----------------------------
(***************************************************************************)
(* Model of the OpenAI-compatible gateway (roccoren/openai-cloudflare-     *)
(* proxy): the Worker entry point with its two routes, the configuration   *)
(* resolver (config.ts), the two provider handlers, the model registry     *)
(* and the process-wide KeyManager.                                        *)
(*                                                                         *)
(* JavaScript strings that the code lower-cases or pattern-matches are     *)
(* sequences of one-character strings, so that toLowerCase is computed     *)
(* character by character.  Other JavaScript values are tagged records.    *)
(***************************************************************************)
EXTENDS Integers, Sequences, FiniteSets, TLC

VARIABLES
    pc,         \* "idle" | "awaitAzure" | "awaitGitHub" | "done"
    entry,      \* how the request in flight entered: "none" | "fetch" | "github"
    request,    \* the request in flight: [method, path, body]
    env,        \* the Env bundle of the request in flight
    sent,       \* upstream calls issued for the request in flight, in order
    response,   \* responses produced for the request in flight, in order
    upstream,   \* what the upstream answered to the call in flight
    unhandled,  \* TRUE when an exception escaped the handler
    cache,      \* KeyManager.cache: slot -> [present, key, timestamp]
    now,        \* Date.now(), in minutes
    call        \* the concurrent getAzureKey calls: id -> call record

gatewayVars == <<pc, entry, request, env, sent, upstream, response, unhandled>>
keyVars == <<cache, now, call>>
vars == <<pc, entry, request, env, sent, upstream, response, unhandled, cache, now, call>>

---------------------------------------------------------------------------
(* Strings *)

UpperChars == <<"A","B","C","D","E","F","G","H","I","J","K","L","M",
                "N","O","P","Q","R","S","T","U","V","W","X","Y","Z">>
LowerChars == <<"a","b","c","d","e","f","g","h","i","j","k","l","m",
                "n","o","p","q","r","s","t","u","v","w","x","y","z">>

\* String.prototype.toLowerCase on one character
ToLowerChar(c) ==
    IF \E i \in DOMAIN UpperChars : UpperChars[i] = c
    THEN LowerChars[CHOOSE i \in DOMAIN UpperChars : UpperChars[i] = c]
    ELSE c

\* String.prototype.toLowerCase
ToLowerCase(s) == [i \in DOMAIN s |-> ToLowerChar(s[i])]

EmptyStr == << >>
s_gpt4 == <<"g","p","t","-","4">>
s_GPT4 == <<"G","P","T","-","4">>
s_Gpt4 == <<"G","p","t","-","4">>
s_gpt4turbo == <<"g","p","t","-","4","-","t","u","r","b","o">>
s_DeepSeekR1 == <<"D","e","e","p","S","e","e","k","-","R","1">>
s_constructor == <<"c","o","n","s","t","r","u","c","t","o","r">>
s_Constructor == <<"C","o","n","s","t","r","u","c","t","o","r">>
s_toString == <<"t","o","S","t","r","i","n","g">>
s_valueOf == <<"v","a","l","u","e","O","f">>
s_proto == <<"_","_","p","r","o","t","o","_","_">>
s_llama == <<"l","l","a","m","a">>
s_depA == <<"d","e","p","-","A">>
s_depB == <<"d","e","p","-","B">>
s_azure == <<"a","z","u","r","e">>
s_github == <<"g","i","t","h","u","b">>

---------------------------------------------------------------------------
(* JavaScript values *)

Undef == [t |-> "undef", n |-> 0, d |-> 1]
NotNum == [t |-> "str", n |-> 0, d |-> 1]     \* a JSON string where a number is expected
Num(n, d) == [t |-> "num", n |-> n, d |-> d]  \* the number n/d, d > 0

\* typeof v === 'number'
IsNumber(v) == v.t = "num"
\* Number.isInteger(v)
IsInteger(v) == v.t = "num" /\ v.n % v.d = 0
\* v < k and v > k for a number v and an integer k
Less(v, k) == v.n < k * v.d
Greater(v, k) == v.n > k * v.d

NoStr == [t |-> "undef", s |-> EmptyStr]
Str(s) == [t |-> "str", s |-> s]
\* the truthiness of an optional string: undefined and "" are falsy
Truthy(v) == v.t = "str" /\ v.s # EmptyStr

\* The properties every object literal inherits from Object.prototype:
\* the `in` operator and a property read see them too.
ObjectPrototypeKeys == {s_constructor, s_toString, s_valueOf, s_proto}


\* An object literal used as a Record<string,string>: its own properties
\* as [key, value] entries in insertion order, each key once.
EmptyObject == << >>
OwnKeys(obj) == {obj[i].key : i \in DOMAIN obj}
OwnIndex(obj, key) == CHOOSE i \in DOMAIN obj : obj[i].key = key

\* key in obj: own properties and those of the prototype chain
HasProperty(obj, key) == key \in OwnKeys(obj) \/ key \in ObjectPrototypeKeys

\* obj[key]: an own string, an inherited member of Object.prototype (a
\* truthy non-string), or undefined
GetProperty(obj, key) ==
    IF key \in OwnKeys(obj) THEN Str(obj[OwnIndex(obj, key)].value)
    ELSE IF key \in ObjectPrototypeKeys THEN [t |-> "inherited", s |-> key]
    ELSE NoStr

\* obj[key] = value: an existing own property keeps its place; assigning a
\* string to __proto__ runs the inherited setter, which ignores a non-object
\* and adds no property
SetProperty(obj, key, value) ==
    IF key = s_proto THEN obj
    ELSE IF key \in OwnKeys(obj)
    THEN [obj EXCEPT ![OwnIndex(obj, key)].value = value]
    ELSE Append(obj, [key |-> key, value |-> value])

---------------------------------------------------------------------------
(* config.ts *)

\* env.MODEL_MAPPINGS: undefined, or a text that is not JSON, or the JSON
\* text of an object given by its entries in order, [key, value, isString]
NoMappings == [t |-> "undef", entries |-> << >>]
BadMappings == [t |-> "badjson", entries |-> << >>]
JsonMappings(entries) == [t |-> "json", entries |-> entries]
Entry(k, v) == [key |-> k, value |-> v, isString |-> TRUE]
NonStringEntry(k) == [key |-> k, value |-> EmptyStr, isString |-> FALSE]

isStringRecord(entries) == \A i \in DOMAIN entries : entries[i].isString

\* Object.entries(parsedJson).reduce((acc, [key, value]) => ...), from acc
RECURSIVE ReduceLowerCase(_, _)
ReduceLowerCase(entries, acc) ==
    IF entries = << >> THEN acc
    ELSE ReduceLowerCase(Tail(entries),
             SetProperty(acc, ToLowerCase(Head(entries).key), Head(entries).value))

parseModelMappings(e) ==
    IF e.MODEL_MAPPINGS.t = "undef" THEN EmptyObject
    ELSE IF e.MODEL_MAPPINGS.t = "badjson" THEN EmptyObject
    ELSE IF ~isStringRecord(e.MODEL_MAPPINGS.entries) THEN EmptyObject
    ELSE ReduceLowerCase(e.MODEL_MAPPINGS.entries, EmptyObject)

\* whether the GitHub configuration is defined
buildGitHubConfig(e) == Truthy(e.GITHUB_API_KEY)

createConfig(e) ==
    [ github |-> buildGitHubConfig(e),
      defaultProvider |-> IF buildGitHubConfig(e) THEN "github" ELSE "azure",
      defaultModel |-> s_DeepSeekR1,
      modelMappings |-> parseModelMappings(e) ]

isValidModel(modelName, config) ==
    HasProperty(config.modelMappings, ToLowerCase(modelName))

\* config.modelMappings[modelName.toLowerCase()] || modelName
getDeploymentName(modelName, config) ==
    LET v == GetProperty(config.modelMappings, ToLowerCase(modelName))
    IN  IF v.t = "inherited" \/ Truthy(v) THEN v ELSE Str(modelName)

---------------------------------------------------------------------------
(* Responses and handler outcomes *)

Msg(text) == [text |-> text, arg |-> NoStr]
MsgAbout(text, arg) == [text |-> text, arg |-> arg]

\* new Response(JSON.stringify({error: {message, type, code}}), {status})
ErrorResponse(status, type, code, message) ==
    [ status |-> status, kind |-> "error", type |-> type, code |-> code,
      message |-> message, model |-> NoStr, content |-> "", data |-> << >> ]

\* new Response(JSON.stringify(chatCompletionResponse)): status 200
CompletionResponse(model, content) ==
    [ status |-> 200, kind |-> "completion", type |-> "", code |-> "",
      message |-> Msg(""), model |-> model, content |-> content, data |-> << >> ]

\* new Response('Method not allowed', {status: 405}) and the like
TextResponse(status, text) ==
    [ status |-> status, kind |-> "text", type |-> "", code |-> "",
      message |-> Msg(text), model |-> NoStr, content |-> "", data |-> << >> ]

ListResponse(data) ==
    [ status |-> 200, kind |-> "list", type |-> "", code |-> "",
      message |-> Msg(""), model |-> NoStr, content |-> "", data |-> data ]

NoPayload ==
    [ provider |-> "none", model |-> NoStr, messages |-> [t |-> "undef", items |-> << >>],
      temperature |-> Undef, max_tokens |-> Undef, top_p |-> Undef, stream |-> "undef",
      credential |-> NoStr ]

\* What a run of handler code ends in: a returned Response, a thrown
\* exception, or a suspension on an upstream call carrying its payload.
Return(resp) == [kind |-> "return", resp |-> resp, payload |-> NoPayload]
Throw(text) == [kind |-> "throw", resp |-> TextResponse(0, text), payload |-> NoPayload]
Await(payload) == [kind |-> "await", resp |-> TextResponse(0, ""), payload |-> payload]

handleError(o) ==
    ErrorResponse(500, "proxy_error", "internal_error", o.resp.message)

\* try { ... } catch (error) { return handleError(error); }
Catch(o) == IF o.kind = "throw" THEN Return(handleError(o)) ELSE o

---------------------------------------------------------------------------
(* Request validation and reshaping *)

\* a mutant: the upper bounds taken as exclusive
validateParametersExclusive(req) ==
    IF req.temperature # Undef
       /\ (~IsNumber(req.temperature) \/ Less(req.temperature, 0)
             \/ ~Less(req.temperature, 2))
    THEN [valid |-> FALSE, error |-> "temperature must be between 0 and 2"]
    ELSE IF req.max_tokens # Undef
       /\ (~IsInteger(req.max_tokens) \/ ~Greater(req.max_tokens, 0))
    THEN [valid |-> FALSE, error |-> "max_tokens must be a positive integer"]
    ELSE IF req.max_completion_tokens # Undef
       /\ (~IsInteger(req.max_completion_tokens)
             \/ ~Greater(req.max_completion_tokens, 0))
    THEN [valid |-> FALSE, error |-> "max_completion_tokens must be a positive integer"]
    ELSE IF req.top_p # Undef
       /\ (~IsNumber(req.top_p) \/ Less(req.top_p, 0) \/ ~Less(req.top_p, 1))
    THEN [valid |-> FALSE, error |-> "top_p must be between 0 and 1"]
    ELSE [valid |-> TRUE, error |-> ""]

validateParameters(req) ==
    IF req.temperature # Undef
       /\ (~IsNumber(req.temperature) \/ Less(req.temperature, 0)
             \/ Greater(req.temperature, 2))
    THEN [valid |-> FALSE, error |-> "temperature must be between 0 and 2"]
    ELSE IF req.max_tokens # Undef
       /\ (~IsInteger(req.max_tokens) \/ ~Greater(req.max_tokens, 0))
    THEN [valid |-> FALSE, error |-> "max_tokens must be a positive integer"]
    ELSE IF req.max_completion_tokens # Undef
       /\ (~IsInteger(req.max_completion_tokens)
             \/ ~Greater(req.max_completion_tokens, 0))
    THEN [valid |-> FALSE, error |-> "max_completion_tokens must be a positive integer"]
    ELSE IF req.top_p # Undef
       /\ (~IsNumber(req.top_p) \/ Less(req.top_p, 0) \/ Greater(req.top_p, 1))
    THEN [valid |-> FALSE, error |-> "top_p must be between 0 and 1"]
    ELSE [valid |-> TRUE, error |-> ""]

\* a mutant: the fallback field takes priority
getTokenLimitFallbackFirst(req) ==
    IF req.max_completion_tokens # Undef THEN req.max_completion_tokens
    ELSE IF req.max_tokens # Undef THEN req.max_tokens
    ELSE Undef

getTokenLimit(req) ==
    IF req.max_tokens # Undef THEN req.max_tokens
    ELSE IF req.max_completion_tokens # Undef THEN req.max_completion_tokens
    ELSE Undef

stripUnsupportedParameters(req) ==
    [ model |-> req.model, messages |-> req.messages,
      temperature |-> req.temperature, max_tokens |-> getTokenLimit(req),
      top_p |-> req.top_p, stream |-> req.stream ]

InvalidParameters(validation) ==
    ErrorResponse(400, "invalid_request_error", "invalid_parameters",
                  Msg(validation.error))

---------------------------------------------------------------------------
(* Upstream replies *)

\* an optional string member of a JSON object
None == [has |-> FALSE, v |-> ""]
Some(v) == [has |-> TRUE, v |-> v]
\* x || fallback
OrElse(x, fallback) == IF x.has /\ x.v # "" THEN x.v ELSE fallback

\* JSON values an upstream body can hold: null, a number, or an object with
\* an optional error member {message?, code?} and an optional choices array
NoError == [has |-> FALSE, message |-> None, code |-> None]
ErrorMember(message, code) == [has |-> TRUE, message |-> message, code |-> code]
NoChoices == [has |-> FALSE, items |-> << >>]
Choices(items) == [has |-> TRUE, items |-> items]
Choice(content) == [hasMessage |-> TRUE, content |-> content]
JNull == [t |-> "null", error |-> NoError, choices |-> NoChoices]
JNumber == [t |-> "number", error |-> NoError, choices |-> NoChoices]
JObject(error, choices) == [t |-> "object", error |-> error, choices |-> choices]

\* A body as text: raw is the text, parses whether JSON.parse accepts it,
\* json the value it then yields.
JsonText(raw, json) == [parses |-> TRUE, json |-> json, raw |-> raw]
PlainText(raw) == [parses |-> FALSE, json |-> JNull, raw |-> raw]

\* response.body as the REST client hands it over, an `unknown`: the body's
\* text, or the value already decoded from it, or undefined.
TextBody(text) == [form |-> "text", text |-> text]
DecodedBody(raw, json) == [form |-> "decoded", text |-> JsonText(raw, json)]
UndefinedBody == [form |-> "undefined", text |-> PlainText("")]

\* await new Response(body as BodyInit).text(): a string is its own text; any
\* other value is converted with String(), an object to "[object Object]";
\* null and undefined give the empty body
BodyText(body) ==
    IF body.form = "text" THEN body.text
    ELSE IF body.form = "undefined" THEN PlainText("")
    ELSE IF body.text.json.t = "null" THEN PlainText("")
    ELSE IF body.text.json.t = "object" THEN PlainText("[object Object]")
    ELSE body.text

Digits == <<"0","1","2","3","4","5","6","7","8","9">>
DigitValue(c) == (CHOOSE i \in DOMAIN Digits : Digits[i] = c) - 1
\* parseInt(s, 10) on a string of decimal digits
RECURSIVE parseInt(_)
parseInt(s) ==
    IF s = << >> THEN 0
    ELSE 10 * parseInt(SubSeq(s, 1, Len(s) - 1)) + DigitValue(s[Len(s)])

Status200 == <<"2","0","0">>
Status429 == <<"4","2","9">>
Status502 == <<"5","0","2">>

NoReply == [kind |-> "none", status |-> << >>, body |-> UndefinedBody]
ThrownReply == [kind |-> "throw", status |-> << >>, body |-> UndefinedBody]
Reply(status, body) == [kind |-> "response", status |-> status, body |-> body]

\* responseBody.choices[0].message.content || '' on a decoded value:
\* a TypeError unless the value is an object whose first choice has a message
FirstChoiceContent(body) ==
    IF body.form = "decoded" /\ body.text.json.t = "object"
       /\ body.text.json.choices.has
       /\ body.text.json.choices.items # << >>
       /\ body.text.json.choices.items[1].hasMessage
    THEN Some(OrElse(body.text.json.choices.items[1].content, ""))
    ELSE None

---------------------------------------------------------------------------
(* The primary (Azure) provider path *)

\* aiClient(endpoint, new AzureKeyCredential(env.AZURE_API_KEY)): the
\* constructor of AzureKeyCredential throws "key must be a non-empty string"
\* on a missing or empty key
createAzureClient(e) ==
    [ throws |-> ~Truthy(e.AZURE_API_KEY),
      credential |-> e.AZURE_API_KEY ]

\* request.model || config.defaultModel
ModelNameOf(req, config) == IF Truthy(req.model) THEN req.model.s ELSE config.defaultModel

\* request.messages.map(msg => ({role: msg.role, content: msg.content}))
MapMessages(messages) ==
    [ t |-> "array",
      items |-> [i \in DOMAIN messages.items |->
                    [role |-> messages.items[i].role,
                     content |-> messages.items[i].content]] ]

\* the try block of handleAzureChatCompletion up to the awaited post
AzureRequest(req, e, config) ==
    LET validation == validateParameters(req)
        client == createAzureClient(e)
        deploymentName == getDeploymentName(ModelNameOf(req, config), config)
        requestParams == stripUnsupportedParameters(req)
    IN  IF ~validation.valid THEN Return(InvalidParameters(validation))
        ELSE IF client.throws THEN Throw("key must be a non-empty string")
        ELSE IF req.messages.t # "array"
        THEN Throw("Cannot read properties of undefined (reading 'map')")
        ELSE Await([ provider |-> "azure",
                     model |-> deploymentName,
                     messages |-> MapMessages(req.messages),
                     temperature |-> req.temperature,
                     max_tokens |-> requestParams.max_tokens,
                     top_p |-> req.top_p,
                     stream |-> "false",
                     credential |-> client.credential ])

\* the try block of handleAzureChatCompletion from the reply on
AzureResponse(req, config, reply) ==
    IF reply.kind = "throw" THEN Throw("fetch failed")
    ELSE IF reply.status # Status200
    THEN LET errorText == BodyText(reply.body)
         IN  IF errorText.parses /\ errorText.json.t # "null"
             THEN Return(ErrorResponse(
                      parseInt(reply.status), "azure_error",
                      OrElse(errorText.json.error.code, "unknown_error"),
                      Msg(OrElse(errorText.json.error.message,
                                 "Azure AI request failed"))))
             \* JSON.parse threw, or parsedError.error threw on null: the
             \* inner catch answers for both
             ELSE Return(ErrorResponse(
                      500, "azure_error", "parse_error",
                      Msg("Azure AI request failed: " \o errorText.raw)))
    ELSE LET content == FirstChoiceContent(reply.body)
         IN  IF content.has
             THEN Return(CompletionResponse(Str(ModelNameOf(req, config)), content.v))
             ELSE Throw("Cannot read properties of undefined")

\* a mutant: the handler without its try/catch
handleAzureChatCompletionNoCatch(req, e, config) ==
    AzureRequest(req, e, config)

handleAzureChatCompletion(req, e, config) ==
    Catch(AzureRequest(req, e, config))

\* handleAzureChatCompletion resumed by the upstream's reply
resumeAzureChatCompletion(req, config, reply) ==
    Catch(AzureResponse(req, config, reply))

---------------------------------------------------------------------------
(* The secondary (GitHub) provider path *)

GitHubRequest(req, e, config) ==
    LET validation == validateParameters(req)
        requestParams == stripUnsupportedParameters(req)
    IN  IF ~validation.valid THEN Return(InvalidParameters(validation))
        ELSE Await([ provider |-> "github",
                     model |-> Str(ModelNameOf(req, config)),
                     messages |-> req.messages,
                     temperature |-> req.temperature,
                     max_tokens |-> requestParams.max_tokens,
                     top_p |-> req.top_p,
                     stream |-> "false",
                     credential |-> e.GITHUB_API_KEY ])

\* response.ok
IsOk(status) == parseInt(status) >= 200 /\ parseInt(status) <= 299

GitHubResponse(req, config, reply) ==
    IF reply.kind = "throw" THEN Throw("fetch failed")
    ELSE LET text == BodyText(reply.body)
         IN  IF ~text.parses THEN Throw("Unexpected token in JSON")
             ELSE IF ~IsOk(reply.status)
             THEN IF text.json.t = "null"
                  THEN Throw("Cannot read properties of null (reading 'error')")
                  ELSE Return(ErrorResponse(
                           parseInt(reply.status), "github_error",
                           OrElse(text.json.error.code, "unknown_error"),
                           Msg(OrElse(text.json.error.message,
                                      "GitHub API request failed"))))
             ELSE LET content ==
                          FirstChoiceContent(DecodedBody(text.raw, text.json))
                  IN  IF content.has
                      THEN Return(CompletionResponse(
                               Str(ModelNameOf(req, config)), content.v))
                      ELSE Throw("Cannot read properties of undefined")

handleGitHubChatCompletion(req, e, config) ==
    IF ~Truthy(e.GITHUB_API_KEY)
    THEN Return(ErrorResponse(401, "configuration_error", "missing_api_key",
                              Msg("GitHub API key not configured")))
    ELSE Catch(GitHubRequest(req, e, config))

resumeGitHubChatCompletion(req, config, reply) ==
    Catch(GitHubResponse(req, config, reply))

---------------------------------------------------------------------------
(* The model registry and GET /v1/models *)

ModelInfo(provider, contextWindow, maxTokens) ==
    [ known |-> TRUE, provider |-> Str(provider),
      hasCapabilities |-> TRUE,
      contextWindow |-> contextWindow, maxTokens |-> maxTokens ]

\* the compiled-in table, an object literal keyed by model identifier
modelCapabilities ==
    << [key |-> s_gpt4, value |-> ModelInfo(s_azure, 8192, 4096)],
       [key |-> s_gpt4turbo, value |-> ModelInfo(s_azure, 128000, 4096)],
       [key |-> s_DeepSeekR1, value |-> ModelInfo(s_github, 32768, 8192)] >>

\* modelCapabilities[id] || { capabilities: { 8192, 4096, ... } }: an own entry
\* under exactly that key; a member of Object.prototype (truthy, and without
\* a capabilities member); else the literal default, which has no provider
LookupCapabilities(id) ==
    IF id \in OwnKeys(modelCapabilities)
    THEN modelCapabilities[OwnIndex(modelCapabilities, id)].value
    ELSE IF id \in ObjectPrototypeKeys
    THEN [ known |-> TRUE, provider |-> NoStr, hasCapabilities |-> FALSE,
           contextWindow |-> 0, maxTokens |-> 0 ]
    ELSE [ known |-> FALSE, provider |-> NoStr, hasCapabilities |-> TRUE,
           contextWindow |-> 8192, maxTokens |-> 4096 ]

\* one element of data: the callback of Object.entries(configMappings).map
ModelEntry(id) ==
    LET capabilities == LookupCapabilities(id)
    IN  [ id |-> id,
          owned_by |-> IF Truthy(capabilities.provider)
                       THEN capabilities.provider.s ELSE s_azure,
          context_window |-> capabilities.contextWindow,
          max_tokens |-> capabilities.maxTokens ]

\* handleModels has no try block: a TypeError in the callback escapes it
handleModels(req, e) ==
    LET configMappings == createConfig(e).modelMappings
    IN  IF req.method # "GET" THEN Return(TextResponse(405, "Method not allowed"))
        ELSE IF \E i \in DOMAIN configMappings :
                    ~LookupCapabilities(configMappings[i].key).hasCapabilities
        THEN Throw("Cannot read properties of undefined (reading 'contextWindow')")
        ELSE Return(ListResponse(
                 [i \in DOMAIN configMappings |-> ModelEntry(configMappings[i].key)]))

---------------------------------------------------------------------------
(* POST /v1/chat/completions and the entry point *)

ModelNotFound(modelName) ==
    ErrorResponse(400, "invalid_request_error", "model_not_found",
                  MsgAbout("Model not supported", Str(modelName)))

\* handleChatCompletion dispatching on the configuration's default provider
handleChatCompletionByProvider(req, e) ==
    LET config == createConfig(e)
        requestBody == req.body
    IN  IF requestBody.t = "badjson"
        THEN Catch(Throw("Unexpected token in JSON"))
        ELSE IF requestBody.t = "null"
        THEN Catch(Throw("Cannot read properties of null (reading 'model')"))
        ELSE IF ~isValidModel(ModelNameOf(requestBody, config), config)
        THEN Return(ModelNotFound(ModelNameOf(requestBody, config)))
        ELSE IF config.defaultProvider = "github"
        THEN handleGitHubChatCompletion(requestBody, e, config)
        ELSE handleAzureChatCompletion(requestBody, e, config)

\* The returned promise of handleAzureChatCompletion is not awaited inside
\* the try block, so only request.json() and the reads of this function
\* itself are covered by this catch.
handleChatCompletion(req, e) ==
    LET config == createConfig(e)
        requestBody == req.body
    IN  IF requestBody.t = "badjson"
        THEN Catch(Throw("Unexpected token in JSON"))
        ELSE IF requestBody.t = "null"
        THEN Catch(Throw("Cannot read properties of null (reading 'model')"))
        ELSE IF ~isValidModel(ModelNameOf(requestBody, config), config)
        THEN Return(ModelNotFound(ModelNameOf(requestBody, config)))
        ELSE handleAzureChatCompletion(requestBody, e, config)

\* export default { fetch }
fetch(req, e) ==
    IF req.path = "/v1/models" THEN handleModels(req, e)
    ELSE IF req.path = "/v1/chat/completions"
    THEN IF req.method # "POST"
         THEN Return(TextResponse(405, "Method not allowed"))
         ELSE handleChatCompletion(req, e)
    ELSE Return(TextResponse(404, "Not found"))

---------------------------------------------------------------------------
(* Inputs *)

s_k1 == <<"k","1">>
s_k3 == <<"k","3">>
s_ghKey == <<"g","h","p">>
s_BearerK2 == <<"B","e","a","r","e","r"," ","k","2">>

Message(role, content) == [role |-> role, content |-> content]
NoMessages == [t |-> "undef", items |-> << >>]
Messages(items) == [t |-> "array", items |-> items]

\* the largest token limit a request asks for
MaxTokenLimit == 1

TemperatureInputs == {Undef, NotNum, Num(-1, 2), Num(0, 1), Num(2, 1), Num(5, 2)}
TopPInputs == {Undef, Num(-1, 2), Num(0, 1), Num(1, 1), Num(3, 2)}
MaxTokensInputs == {Undef, Num(1, 2)} \cup {Num(n, 1) : n \in 0..MaxTokenLimit}
MaxCompletionTokensInputs == {Undef, Num(0, 1), Num(MaxTokenLimit + 1, 1)}
ModelInputs == { NoStr, Str(EmptyStr), Str(s_gpt4), Str(s_GPT4), Str(s_Gpt4),
                 Str(s_DeepSeekR1), Str(s_Constructor), Str(s_llama) }
MessagesInputs ==
    { NoMessages,
      Messages(<<Message("system", "be brief"), Message("user", "hello")>>) }
StreamInputs == {"undef", "true"}

NoBody ==
    [ t |-> "none", model |-> NoStr, messages |-> NoMessages, temperature |-> Undef,
      max_tokens |-> Undef, max_completion_tokens |-> Undef, top_p |-> Undef,
      stream |-> "undef" ]
BadJsonBody == [NoBody EXCEPT !.t = "badjson"]
NullBody == [NoBody EXCEPT !.t = "null"]
ObjectBodies ==
    [ t : {"object"}, model : ModelInputs, messages : MessagesInputs,
      temperature : TemperatureInputs, max_tokens : MaxTokensInputs,
      max_completion_tokens : MaxCompletionTokensInputs, top_p : TopPInputs,
      stream : StreamInputs ]

NoHeaders == [authorization |-> NoStr, apiKey |-> NoStr]
HeaderInputs == {NoHeaders, [authorization |-> Str(s_BearerK2), apiKey |-> NoStr]}

\* the MODEL_MAPPINGS values of the chat requests, and the further ones of
\* the other routes
MappingInputs ==
    { NoMappings,
      JsonMappings(<<Entry(s_GPT4, s_depA), Entry(s_DeepSeekR1, s_DeepSeekR1)>>),
      JsonMappings(<<Entry(s_GPT4, s_depA), Entry(s_gpt4, s_depB)>>) }
MoreMappingInputs ==
    { BadMappings,
      JsonMappings(<<Entry(s_GPT4, s_depA), NonStringEntry(s_llama)>>),
      JsonMappings(<<Entry(s_gpt4, s_gpt4)>>),
      JsonMappings(<<Entry(s_gpt4turbo, s_depA), Entry(s_llama, s_llama)>>),
      JsonMappings(<<Entry(s_proto, s_depA), Entry(s_gpt4, s_depB)>>) }

\* the MODEL_MAPPINGS values handleGitHubChatCompletion is called under
GitHubMappingInputs ==
    { NoMappings,
      JsonMappings(<<Entry(s_GPT4, s_depA), Entry(s_DeepSeekR1, s_DeepSeekR1)>>) }

EnvsWith(mappings) ==
    [ AZURE_API_KEY : {NoStr, Str(s_k1)},
      GITHUB_API_KEY : {NoStr, Str(s_ghKey)},
      MODEL_MAPPINGS : mappings ]
Envs == EnvsWith(MappingInputs)
AllEnvs == EnvsWith(MappingInputs \cup MoreMappingInputs)

Request(method, path, headers, body) ==
    [method |-> method, path |-> path, headers |-> headers, body |-> body]
NoRequest == Request("", "", NoHeaders, NoBody)
NoEnv == [AZURE_API_KEY |-> NoStr, GITHUB_API_KEY |-> NoStr, MODEL_MAPPINGS |-> NoMappings]

---------------------------------------------------------------------------
(* KeyManager: the process-wide credential resolver *)

\* CACHE_TTL, with the minute as the unit of Date.now()
CACHE_TTL == 5

\* the longest run of the clock, and the number of concurrent calls
MaxTime == 6
MaxCalls == 2
Callers == 1..MaxCalls

NoCache == [present |-> FALSE, key |-> EmptyStr, timestamp |-> 0]

isValidKey(key) == key.t = "str" /\ Len(key.s) > 0

\* validateKey: the basic validation is all it does
validateKey(key) == isValidKey(key)

\* getCachedKey with an entry of age CACHE_TTL still served
getCachedKeyInclusive(c, t) ==
    IF c.present /\ t - c.timestamp <= CACHE_TTL THEN Str(c.key) ELSE NoStr

\* getCachedKey('azure') at time t: the key of a fresh entry, else null
getCachedKey(c, t) ==
    IF c.present /\ t - c.timestamp < CACHE_TTL THEN Str(c.key) ELSE NoStr

\* the cache after getCachedKey('azure') at time t: a stale entry is deleted
AfterGetCachedKey(c, t) ==
    IF c.present /\ ~(t - c.timestamp < CACHE_TTL) THEN NoCache ELSE c

\* cacheKey(key, 'azure') at time t
cacheKey(key, t) == [present |-> TRUE, key |-> key, timestamp |-> t]

IsSpace(ch) == ch \in {" ", "\t"}

\* the number of whitespace characters of h from position i on
RECURSIVE SpaceRun(_, _)
SpaceRun(h, i) ==
    IF i <= Len(h) /\ IsSpace(h[i]) THEN 1 + SpaceRun(h, i + 1) ELSE 0

s_bearer == <<"b","e","a","r","e","r">>

\* authHeader.match(/^Bearer\s+(.+)$/i): match[1], or no match.  \s+ takes
\* the whole run of whitespace unless nothing would be left for (.+)
BearerMatch(h) ==
    LET run == SpaceRun(h, 7)
    IN  IF Len(h) < 8 \/ ToLowerCase(SubSeq(h, 1, 6)) # s_bearer \/ run = 0
        THEN NoStr
        ELSE IF 6 + run < Len(h) THEN Str(SubSeq(h, 7 + run, Len(h)))
        ELSE IF run >= 2 THEN Str(SubSeq(h, Len(h), Len(h)))
        ELSE NoStr

\* The keys getAzureKey submits to validateKey, in order: each source that
\* passes its own test (a truthy environment key, a matching Authorization
\* header, a truthy api-key header)
Candidates(in) ==
    (IF Truthy(in.envKey) THEN <<in.envKey>> ELSE << >>)
    \o (IF Truthy(in.authorization) /\ BearerMatch(in.authorization.s).t = "str"
        THEN <<BearerMatch(in.authorization.s)>> ELSE << >>)
    \o (IF Truthy(in.apiKey) THEN <<in.apiKey>> ELSE << >>)

NoInputs == [envKey |-> NoStr, authorization |-> NoStr, apiKey |-> NoStr]
IdleCall ==
    [ pc |-> "idle", in |-> NoInputs, pending |-> << >>, result |-> EmptyStr,
      hit |-> FALSE, lookups |-> 0 ]

---------------------------------------------------------------------------
(* Upstream replies drawn by the model *)

RateLimited ==
    JObject(ErrorMember(Some("rate limited"), Some("rate_limit")), NoChoices)
ErrorJsonInputs ==
    { JsonText("{\"error\":{\"message\":\"rate limited\",\"code\":\"rate_limit\"}}",
               RateLimited),
      JsonText("{\"error\":{}}", JObject(ErrorMember(None, None), NoChoices)),
      JsonText("{}", JObject(NoError, NoChoices)),
      JsonText("429", JNumber),
      JsonText("null", JNull) }
SuccessJsonInputs ==
    { JsonText("{\"choices\":[{\"message\":{\"content\":\"hi\"}}]}",
               JObject(NoError, Choices(<<Choice(Some("hi"))>>))),
      JsonText("{\"choices\":[{\"message\":{}}]}",
               JObject(NoError, Choices(<<Choice(None)>>))),
      JsonText("{\"choices\":[]}", JObject(NoError, Choices(<< >>))) }
NotJsonInputs == {PlainText("<html>Bad Gateway</html>")}

\* what client.path("/chat/completions").post(...) resolves to or throws
AzureReplies ==
    {ThrownReply}
    \cup {Reply(Status200, DecodedBody(t.raw, t.json)) : t \in SuccessJsonInputs}
    \cup {Reply(Status200, TextBody(t)) : t \in NotJsonInputs}
    \cup {Reply(st, TextBody(t)) :
             st \in {Status429, Status502}, t \in ErrorJsonInputs \cup NotJsonInputs}
    \cup {Reply(Status429, DecodedBody(t.raw, t.json)) : t \in ErrorJsonInputs}

\* what fetch(...) resolves to or throws
GitHubReplies ==
    {ThrownReply}
    \cup {Reply(Status200, TextBody(t)) : t \in SuccessJsonInputs \cup NotJsonInputs}
    \cup {Reply(st, TextBody(t)) :
             st \in {Status429, Status502}, t \in ErrorJsonInputs \cup NotJsonInputs}

---------------------------------------------------------------------------
(* The gateway as a state machine: one request in flight *)

GatewayInit ==
    /\ pc = "idle"
    /\ entry = "none"
    /\ request = NoRequest
    /\ env = NoEnv
    /\ sent = << >>
    /\ upstream = NoReply
    /\ response = << >>
    /\ unhandled = FALSE

\* the state a handler outcome leads to
Settle(o) ==
    /\ pc' = IF o.kind # "await" THEN "done"
             ELSE IF o.payload.provider = "azure" THEN "awaitAzure"
             ELSE "awaitGitHub"
    /\ response' = IF o.kind = "return" THEN Append(response, o.resp) ELSE response
    /\ sent' = IF o.kind = "await" THEN Append(sent, o.payload) ELSE sent
    /\ unhandled' = (unhandled \/ o.kind = "throw")

Methods == {"GET", "POST", "DELETE"}

\* fetch() routed to GET /v1/models
Models ==
    /\ pc = "idle"
    /\ \E method \in Methods, e \in AllEnvs :
          LET req == Request(method, "/v1/models", NoHeaders, NoBody)
          IN  /\ entry' = "fetch"
              /\ request' = req
              /\ env' = e
              /\ Settle(fetch(req, e))
    /\ UNCHANGED <<upstream, keyVars>>

\* fetch() routed to /v1/chat/completions: the handler up to its first
\* upstream call
ChatCompletion ==
    /\ pc = "idle"
    /\ \E method \in Methods, headers \in HeaderInputs, e \in Envs,
          body \in ObjectBodies \cup {BadJsonBody, NullBody} :
          LET req == Request(method, "/v1/chat/completions", headers, body)
          IN  /\ method # "POST" => body = NullBody /\ headers = NoHeaders
              /\ entry' = "fetch"
              /\ request' = req
              /\ env' = e
              /\ Settle(fetch(req, e))
    /\ UNCHANGED <<upstream, keyVars>>

\* fetch() on any other path
NotFound ==
    /\ pc = "idle"
    /\ \E method \in Methods, e \in Envs :
          LET req == Request(method, "/v1/nonexistent", NoHeaders, NoBody)
          IN  /\ entry' = "fetch"
              /\ request' = req
              /\ env' = e
              /\ Settle(fetch(req, e))
    /\ UNCHANGED <<upstream, keyVars>>

\* handleGitHubChatCompletion called on a parsed request: no route of
\* fetch() leads to it
GitHubChatCompletion ==
    /\ pc = "idle"
    /\ \E e \in EnvsWith(GitHubMappingInputs), body \in ObjectBodies :
          /\ entry' = "github"
          /\ request' = Request("POST", "/v1/chat/completions", NoHeaders, body)
          /\ env' = e
          /\ Settle(handleGitHubChatCompletion(body, e, createConfig(e)))
    /\ UNCHANGED <<upstream, keyVars>>

\* the primary upstream answers: the handler runs to its return
AzureReply ==
    /\ pc = "awaitAzure"
    /\ \E r \in AzureReplies :
          /\ upstream' = r
          /\ Settle(resumeAzureChatCompletion(request.body, createConfig(env), r))
    /\ UNCHANGED <<entry, request, env, keyVars>>

\* the secondary upstream answers
GitHubReply ==
    /\ pc = "awaitGitHub"
    /\ \E r \in GitHubReplies :
          /\ upstream' = r
          /\ Settle(resumeGitHubChatCompletion(request.body, createConfig(env), r))
    /\ UNCHANGED <<entry, request, env, keyVars>>

\* the response is delivered; the isolate takes the next request
Deliver ==
    /\ pc = "done"
    /\ pc' = "idle"
    /\ entry' = "none"
    /\ request' = NoRequest
    /\ env' = NoEnv
    /\ sent' = << >>
    /\ upstream' = NoReply
    /\ response' = << >>
    /\ unhandled' = FALSE
    /\ UNCHANGED keyVars

KeyInit ==
    /\ cache = NoCache
    /\ now = 0
    /\ call = [c \in Callers |-> IdleCall]

Init == GatewayInit /\ KeyInit

s_bearerK2 == <<"b","e","a","r","e","r"," ","k","2">>
s_BasicK2 == <<"B","a","s","i","c"," ","k","2">>

\* what a call brings: AZURE_API_KEY, the Authorization header, the api-key
\* header
KeyInput(envKey, authorization, apiKey) ==
    [envKey |-> envKey, authorization |-> authorization, apiKey |-> apiKey]

KeyInputs ==
    { NoInputs,
      KeyInput(Str(s_k1), NoStr, NoStr),
      KeyInput(NoStr, Str(s_bearerK2), NoStr),
      KeyInput(NoStr, Str(s_BasicK2), Str(s_k3)),
      KeyInput(NoStr, Str(s_bearerK2), Str(s_k3)),
      KeyInput(Str(s_k1), Str(s_bearerK2), Str(s_k3)) }

\* getAzureKey(request, env) up to its first await: the cache lookup, then
\* either the cached key, or the first validateKey pending, or the throw
GetAzureKey(c) ==
    /\ call[c].pc = "idle"
    /\ \E in \in KeyInputs :
          LET cachedKey == getCachedKey(cache, now)
              pending == Candidates(in)
          IN  /\ cache' = AfterGetCachedKey(cache, now)
              /\ call' = [call EXCEPT ![c] =
                    IF Truthy(cachedKey)
                    THEN [ pc |-> "returned", in |-> in, pending |-> << >>,
                           result |-> cachedKey.s, hit |-> TRUE, lookups |-> 0 ]
                    ELSE IF pending = << >>
                    THEN [ pc |-> "failed", in |-> in, pending |-> << >>,
                           result |-> EmptyStr, hit |-> FALSE, lookups |-> 0 ]
                    ELSE [ pc |-> "validating", in |-> in, pending |-> pending,
                           result |-> EmptyStr, hit |-> FALSE, lookups |-> 0 ]]
    /\ UNCHANGED <<now, gatewayVars>>

\* getAzureKey resumed after await this.validateKey(...)
Validated(c) ==
    /\ call[c].pc = "validating"
    /\ LET key == Head(call[c].pending)
           rest == Tail(call[c].pending)
       IN  IF validateKey(key)
           THEN /\ cache' = cacheKey(key.s, now)
                /\ call' = [call EXCEPT ![c].pc = "returned", ![c].result = key.s,
                                        ![c].pending = << >>,
                                        ![c].lookups = @ + 1]
           ELSE /\ cache' = cache
                /\ call' = [call EXCEPT ![c].pc = IF rest = << >> THEN "failed" ELSE @,
                                        ![c].pending = rest,
                                        ![c].lookups = @ + 1]
    /\ UNCHANGED <<now, gatewayVars>>

\* the caller takes the key or the ApiKeyError
Resolved(c) ==
    /\ call[c].pc \in {"returned", "failed"}
    /\ call' = [call EXCEPT ![c] = IdleCall]
    /\ UNCHANGED <<cache, now, gatewayVars>>

\* a minute passes
Tick ==
    /\ now < MaxTime
    /\ now' = now + 1
    /\ UNCHANGED <<cache, call, gatewayVars>>

KeyNext ==
    \/ \E c \in Callers : GetAzureKey(c)
    \/ \E c \in Callers : Validated(c)
    \/ \E c \in Callers : Resolved(c)
    \/ Tick

SpecKeys == Init /\ [][KeyNext]_vars

Next ==
    \/ Models
    \/ ChatCompletion
    \/ NotFound
    \/ GitHubChatCompletion
    \/ AzureReply
    \/ GitHubReply
    \/ Deliver

Spec == Init /\ [][Next]_vars

---------------------------------------------------------------------------
(* Properties *)

\* the request in flight is a POST /v1/chat/completions that came through
\* fetch()
ChatPost ==
    /\ entry = "fetch"
    /\ request.method = "POST"
    /\ request.path = "/v1/chat/completions"

\* ... and its body is a JSON object
ChatObject == ChatPost /\ request.body.t = "object"

\* the model name of the request in flight: its own, or the default model
RequestedModel == ModelNameOf(request.body, createConfig(env))

\* the name is admissible: its lower-cased form is a key of the mapping
Admissible(name, e) ==
    ToLowerCase(name) \in OwnKeys(createConfig(e).modelMappings)

\* the one response of the request in flight is the error envelope given
AnswersError(status, type, code) ==
    /\ Len(response) = 1
    /\ response[1].kind = "error"
    /\ response[1].status = status
    /\ response[1].type = type
    /\ response[1].code = code

(* C1: a chat completion request whose model name (or the default model,   *)
(* when it names none) is not admissible under the configured mapping is   *)
(* answered 400 invalid_request_error / model_not_found, and no upstream   *)
(* call is issued while it is handled.                                     *)
C1_ModelNotFoundBeforeUpstream ==
    (ChatObject /\ ~Admissible(RequestedModel, env))
        => /\ sent = << >>
           /\ pc \in {"idle", "done"}
           /\ pc = "done" =>
                 AnswersError(400, "invalid_request_error", "model_not_found")

(* C2: isValidModel admits a name exactly when its lower-cased form is one *)
(* of the lower-cased keys of the operator's mapping; a name that is no    *)
(* such key is never admitted, the empty mapping included.                 *)
C2_AdmitsExactlyMappingKeys ==
    ChatObject =>
        (isValidModel(RequestedModel, createConfig(env))
            <=> Admissible(RequestedModel, env))

\* the four rules of the validator, each on its own
TemperatureOk(v) == v = Undef \/ (v.t = "num" /\ v.n >= 0 /\ v.n <= 2 * v.d)
TopPOk(v) == v = Undef \/ (v.t = "num" /\ v.n >= 0 /\ v.n <= v.d)
PositiveIntegerOk(v) == v = Undef \/ (v.t = "num" /\ v.n % v.d = 0 /\ v.n > 0)
RulesPass(b) ==
    /\ TemperatureOk(b.temperature)
    /\ PositiveIntegerOk(b.max_tokens)
    /\ PositiveIntegerOk(b.max_completion_tokens)
    /\ TopPOk(b.top_p)

\* the request in flight got past the model check
ModelAdmitted == ChatObject /\ isValidModel(RequestedModel, createConfig(env))

(* C3: a chat completion request with an admitted model is answered 400    *)
(* invalid_request_error / invalid_parameters exactly when one of the four *)
(* parameter rules is violated, and then no upstream call was issued.      *)
C3_InvalidParametersExactly ==
    ModelAdmitted =>
        /\ ~RulesPass(request.body) => sent = << >> /\ pc \in {"idle", "done"}
        /\ pc = "done" =>
              (AnswersError(400, "invalid_request_error", "invalid_parameters")
                  <=> ~RulesPass(request.body))

\* C3's case: only top_p breaks its rule, temperature sits on its upper
\* boundary, and the request was rejected
C3_Witness ==
    /\ ModelAdmitted
    /\ pc = "done"
    /\ request.body.temperature = Num(2, 1)
    /\ request.body.top_p = Num(3, 2)
    /\ PositiveIntegerOk(request.body.max_tokens)
    /\ PositiveIntegerOk(request.body.max_completion_tokens)
    /\ AnswersError(400, "invalid_request_error", "invalid_parameters")

\* the token limit the claim names for a request body
ExpectedTokenLimit(b) ==
    IF b.max_tokens # Undef THEN b.max_tokens
    ELSE IF b.max_completion_tokens # Undef THEN b.max_completion_tokens
    ELSE Undef

(* C4: the max_tokens of every upstream call is the request's max_tokens   *)
(* when present, else its max_completion_tokens when present, else absent. *)
C4_TokenLimitForwarded ==
    \A i \in DOMAIN sent :
        sent[i].max_tokens = ExpectedTokenLimit(request.body)

\* C4's case: both fields given and different, and a call went upstream
C4_Witness ==
    /\ sent # << >>
    /\ request.body.max_tokens # Undef
    /\ request.body.max_completion_tokens # Undef
    /\ request.body.max_tokens # request.body.max_completion_tokens
    /\ sent[1].max_tokens = request.body.max_tokens

\* the upstream answered with a status, not an exception
Answered == pc = "done" /\ upstream.kind = "response"

\* the upstream's body is JSON: its text parses, or the client decoded it
JsonDecodable(body) ==
    \/ body.form = "text" /\ body.text.parses
    \/ body.form = "decoded"

(* C5: when the primary upstream answers a non-success status with a       *)
(* JSON-decodable body, the response carries the upstream's status, type   *)
(* azure_error, the body's error code (or unknown_error) and its message   *)
(* (or the placeholder).                                                   *)
C5_AzureErrorPassedThrough ==
    (Answered /\ entry = "fetch" /\ upstream.status # Status200
       /\ JsonDecodable(upstream.body))
        => /\ AnswersError(parseInt(upstream.status), "azure_error",
                  OrElse(upstream.body.text.json.error.code, "unknown_error"))
           /\ response[1].message =
                  Msg(OrElse(upstream.body.text.json.error.message,
                             "Azure AI request failed"))

(* C6: on either provider path, a non-success status whose body is not     *)
(* JSON is answered 500, type <provider>_error, code parse_error.           *)
C6_ParseErrorOnBothPaths ==
    (Answered /\ upstream.body.form = "text" /\ ~upstream.body.text.parses
       /\ (IF entry = "fetch" THEN upstream.status # Status200
           ELSE ~IsOk(upstream.status)))
        => AnswersError(500,
               IF entry = "fetch" THEN "azure_error" ELSE "github_error",
               "parse_error")

(* C7: a chat completion request ends in exactly one response, the success *)
(* envelope or a JSON error envelope; at most one upstream call is issued  *)
(* on the way, and no exception escapes the handler.                       *)
C7_OneResponseOneAttempt ==
    ChatPost =>
        /\ ~unhandled
        /\ Len(sent) <= 1
        /\ pc # "done" => response = << >>
        /\ pc = "done" =>
              /\ Len(response) = 1
              /\ response[1].kind \in {"completion", "error"}

\* C7's case: the one upstream call threw, and the request still ended in
\* the generic error envelope
C7_Witness ==
    /\ ChatPost
    /\ pc = "done"
    /\ Len(sent) = 1
    /\ upstream.kind = "throw"
    /\ AnswersError(500, "proxy_error", "internal_error")

\* the registry's record for a name under case-insensitive lookup, and the
\* conservative default for a name it does not hold
RegistryRecord(id) ==
    IF \E i \in DOMAIN modelCapabilities :
           ToLowerCase(modelCapabilities[i].key) = ToLowerCase(id)
    THEN LET i == CHOOSE i \in DOMAIN modelCapabilities :
                      ToLowerCase(modelCapabilities[i].key) = ToLowerCase(id)
         IN  [ owned_by |-> modelCapabilities[i].value.provider.s,
               context_window |-> modelCapabilities[i].value.contextWindow,
               max_tokens |-> modelCapabilities[i].value.maxTokens ]
    ELSE [owned_by |-> s_azure, context_window |-> 8192, max_tokens |-> 4096]

(* C8: GET /v1/models lists exactly one entry per key of the mapping, each *)
(* with the context_window, max_tokens and owned_by the registry records   *)
(* for that name under case-insensitive lookup, the default descriptor     *)
(* only for names absent from the registry.                                *)
C8_ModelsListedFromRegistry ==
    (entry = "fetch" /\ request.path = "/v1/models" /\ request.method = "GET"
       /\ pc = "done")
        => LET keys == OwnKeys(createConfig(env).modelMappings)
           IN  /\ Len(response) = 1
               /\ response[1].kind = "list"
               /\ Len(response[1].data) = Cardinality(keys)
               /\ {response[1].data[i].id : i \in DOMAIN response[1].data} = keys
               /\ \A i \in DOMAIN response[1].data :
                     LET d == response[1].data[i]
                         r == RegistryRecord(d.id)
                     IN  /\ d.owned_by = r.owned_by
                         /\ d.context_window = r.context_window
                         /\ d.max_tokens = r.max_tokens

\* the caller of the request in flight supplied no key of its own
NoCallerKey ==
    ~Truthy(request.headers.authorization) /\ ~Truthy(request.headers.apiKey)

(* C9: a chat completion request that reaches the primary path with no     *)
(* usable credential (no non-empty environment key, none from the caller)  *)
(* is answered 401 authentication_error / invalid_api_key, and no upstream *)
(* call is issued.                                                         *)
C9_MissingCredentialIs401 ==
    (ModelAdmitted /\ RulesPass(request.body)
       /\ ~Truthy(env.AZURE_API_KEY) /\ NoCallerKey)
        => /\ sent = << >>
           /\ pc = "done" =>
                 AnswersError(401, "authentication_error", "invalid_api_key")

\* the key the resolution order names for a call's inputs, if any
FirstUsableKey(in) ==
    IF in.envKey.t = "str" /\ in.envKey.s # EmptyStr THEN in.envKey
    ELSE IF in.authorization.t = "str" /\ BearerMatch(in.authorization.s).t = "str"
    THEN BearerMatch(in.authorization.s)
    ELSE IF in.apiKey.t = "str" /\ in.apiKey.s # EmptyStr THEN in.apiKey
    ELSE NoStr

(* C10: in every cache state, getAzureKey returns the first usable of the  *)
(* environment key, the Bearer token and the api-key header of its own     *)
(* call, and fails exactly when none of the three is usable.               *)
C10_ResolutionOrder ==
    \A c \in Callers :
        /\ call[c].pc = "returned" =>
              /\ FirstUsableKey(call[c].in).t = "str"
              /\ call[c].result = FirstUsableKey(call[c].in).s
        /\ call[c].pc = "failed" => FirstUsableKey(call[c].in).t = "undef"

\* the azure entry is younger than five minutes / has reached five minutes
FreshEntry == cache.present /\ now - cache.timestamp < 5
StaleEntry == cache.present /\ now - cache.timestamp >= 5

\* caller c enters getAzureKey in this step
Enters(c) == call[c].pc = "idle" /\ call'[c].pc # "idle"

\* caller c leaves getAzureKey with a key it looked up in this step
Stores(c) == call[c].pc = "validating" /\ call'[c].pc = "returned"

\* one step of the resolver treats the azure entry as the cache rule says
CacheRule ==
    \A c \in Callers :
        /\ (Enters(c) /\ FreshEntry) =>
              /\ call'[c].pc = "returned"
              /\ call'[c].result = cache.key
              /\ call'[c].lookups = 0
              /\ cache' = cache
        /\ (Enters(c) /\ StaleEntry) =>
              /\ ~cache'.present
              /\ call'[c].pc \in {"validating", "failed"}
              /\ call'[c].pc = "validating" => call'[c].pending # << >>
        /\ Stores(c) =>
              /\ call'[c].lookups >= 1
              /\ cache' = [present |-> TRUE, key |-> call'[c].result,
                           timestamp |-> now]

(* C11: a resolution that finds an azure entry younger than five minutes   *)
(* returns its key without any validation and leaves the entry, timestamp  *)
(* included, as it was; a resolution that finds the entry five minutes old *)
(* or older evicts it and looks the key up afresh, and a successful lookup *)
(* stores a new entry stamped with the current time.                       *)
C11_CacheReuseAndExpiry == [][CacheRule]_vars

\* a call was served from an entry cached some minutes before
C11_Witness ==
    \E c \in Callers :
        /\ call[c].pc = "returned"
        /\ call[c].hit
        /\ call[c].lookups = 0
        /\ cache.present
        /\ call[c].result = cache.key
        /\ now - cache.timestamp \in 1..4

\* the deployment identifier the configured mapping assigns to a name
MappedDeployment(name, e) ==
    LET m == createConfig(e).modelMappings
    IN  m[OwnIndex(m, ToLowerCase(name))].value

\* the upstream calls issued for the request in flight, on either path
UpstreamCalls == {sent[i] : i \in DOMAIN sent}

(* C12: every upstream call, on either provider path, carries stream =     *)
(* false, the request's messages unchanged and in order, its temperature   *)
(* and top_p as supplied, and as model the deployment identifier the       *)
(* mapping assigns to the lower-cased model name of the request.           *)
C12_UpstreamPayloadReshaped ==
    \A p \in UpstreamCalls :
        /\ p.stream = "false"
        /\ p.messages = request.body.messages
        /\ p.temperature = request.body.temperature
        /\ p.top_p = request.body.top_p
        /\ Admissible(RequestedModel, env) =>
              p.model = Str(MappedDeployment(RequestedModel, env))

\* the request in flight was answered 401 configuration_error / missing_api_key
AnsweredMissingGitHubKey ==
    \E i \in DOMAIN response :
        /\ response[i].kind = "error"
        /\ response[i].status = 401
        /\ response[i].type = "configuration_error"
        /\ response[i].code = "missing_api_key"

AvailableKeys(in) ==
    (IF in.envKey.t = "str" /\ in.envKey.s # EmptyStr THEN {in.envKey.s} ELSE {})
    \cup (IF in.authorization.t = "str" /\ BearerMatch(in.authorization.s).t = "str"
          THEN {BearerMatch(in.authorization.s).s} ELSE {})
    \cup (IF in.apiKey.t = "str" /\ in.apiKey.s # EmptyStr THEN {in.apiKey.s} ELSE {})

(* C14: under every interleaving of calls sharing the cache, the key       *)
(* getAzureKey returns to a call is one of that call's own keys, and a     *)
(* call with no key of its own ends with the missing-credential error.     *)
C14_NoKeyFromAnotherRequest ==
    \A c \in Callers :
        /\ call[c].pc = "returned" => call[c].result \in AvailableKeys(call[c].in)
        /\ (call[c].pc # "idle" /\ AvailableKeys(call[c].in) = {}) =>
              call[c].pc = "failed"

=============================================================================
